---- MODULE Spec2Model ----
(***************************************************************************)
(* A model of pyadics/pfloat.py: bounded-precision p-adic floating point   *)
(* numerals (significand, exponent, prime), their normalization, equality, *)
(* arithmetic, the Hensel-lifting modular inverse and the domain checks of *)
(* plog and pexp.                                                          *)
(*                                                                         *)
(* Python's integers are unbounded and the module stores 65 digits with    *)
(* exponents up to 64.  The model keeps the two relations the code relies  *)
(* on, PADIC_PRECISION = MAX_PADIC_EXPONENT + 1 and                        *)
(* MIN_PADIC_EXPONENT = 1 - MAX_PADIC_EXPONENT, at a smaller scale so that *)
(* every prime power stays far below 2^31.  Python's // and % (floor       *)
(* division, non-negative remainder) are \div and % here.                  *)
(***************************************************************************)
EXTENDS Integers, FiniteSets, Sequences, TLC

VARIABLES
    a, b,       \* the operands: numerals
    op,         \* the operation applied so far
    res, res2,  \* outcomes of the first and of the second call
    truth,      \* outcome of a comparison
    mInt, nInt, \* the integers the operands were built from
    ia, ip, ipower, ic, ib, ii,  \* _invmod: arguments a, p, power; locals c, b, i
    ipc,        \* _invmod: position in the function
    isteps      \* _invmod: loop iterations run

vars == <<a, b, op, res, res2, truth, mInt, nInt,
          ia, ip, ipower, ic, ib, ii, ipc, isteps>>
numvars == <<a, b, op, res, res2, truth, mInt, nInt>>
invvars == <<ia, ip, ipower, ic, ib, ii, ipc, isteps>>

(* ----------------------------- bounds ---------------------------------- *)

\* pfloat.py:3 stores 65 digits; scaled down, one more than the exponent cap.
PADIC_PRECISION == 3
\* pfloat.py:4 caps the exponent at 64; scaled down.
MAX_PADIC_EXPONENT == 2
MIN_PADIC_EXPONENT == 1 - MAX_PADIC_EXPONENT

\* Largest raw significand given to the two-operand operations.
MaxSig == 9
\* Largest |a| and largest power given to _invmod.
MaxInvArg == 12
MaxPower == 4

Primes == {2, 3}
InvPrimes == {2, 3, 5}

(* ------------------------- integer helpers ----------------------------- *)

RECURSIVE Pow(_, _)
\* p ** n for n >= 0
Pow(p, n) == IF n <= 0 THEN 1 ELSE p * Pow(p, n - 1)

\* pow(a, -1, p) succeeds iff a is a unit modulo p
HasInverse(x, p) == \E c \in 0 .. (p - 1) : (x * c) % p = 1 % p

\* pow(a, -1, p)
BaseInverse(x, p) == CHOOSE c \in 0 .. (p - 1) : (x * c) % p = 1 % p

\* faulty variant of HenselStep: the correction is added instead of subtracted
HenselStepPlus(x, p, c, y, i) == (y + (x * y - 1) * c) % Pow(p, i)

\* one iteration of the loop of _invmod: b = (b - (a*b - 1)*c) % p**i
HenselStep(x, p, c, y, i) == (y - (x * y - 1) * c) % Pow(p, i)

RECURSIVE InvmodLoop(_, _, _, _, _, _)
InvmodLoop(x, p, c, y, i, power) ==
    IF i > power THEN y
    ELSE InvmodLoop(x, p, c, HenselStep(x, p, c, y, i), i + 1, power)

\* faulty variant of invmod: the lifting loop is left out
invmodBaseOnly(x, p, power) == BaseInverse(x, p)

\* _invmod(a, p, power), for a unit a
invmod(x, p, power) ==
    LET c == BaseInverse(x, p) IN InvmodLoop(x, p, c, c, 2, power)

(* ------------------------------ numerals ------------------------------- *)

\* PAdicFloat(significand=..., exponent=..., prime=...)
PAdicFloat(s, e, p) == [significand |-> s, exponent |-> e, prime |-> p]

RECURSIVE ValLoop(_, _, _)
ValLoop(i, p, val) ==
    IF i % p = 0 THEN ValLoop(i \div p, p, val + 1) ELSE val

\* PAdicFloat._valuationFromInt(i, p)
valuationFromInt(i, p) ==
    IF i = 0 THEN MAX_PADIC_EXPONENT ELSE ValLoop(i, p, 0)

\* PAdicFloat(n, prime=p) for an int n
PAdicFloatFromInt(n, p) ==
    LET e == valuationFromInt(n, p) IN
    PAdicFloat((n \div Pow(p, e)) % Pow(p, PADIC_PRECISION), e, p)

NaN(p) == PAdicFloat(0, MIN_PADIC_EXPONENT - 1, p)
inf(p) == PAdicFloat(1, MIN_PADIC_EXPONENT - 1, p)

iszero(x) == x.exponent = MAX_PADIC_EXPONENT /\ x.significand = 0
isinf(x) == x.exponent = MIN_PADIC_EXPONENT - 1 /\ x.significand = 1
isNaN(x) == x.exponent = MIN_PADIC_EXPONENT - 1 /\ x.significand = 0

normalize(x) ==
    IF x.exponent < MIN_PADIC_EXPONENT /\ x.significand = 0
    THEN PAdicFloat(0, MIN_PADIC_EXPONENT - 1, x.prime)
    ELSE IF x.exponent < MIN_PADIC_EXPONENT
    THEN PAdicFloat(1, MIN_PADIC_EXPONENT - 1, x.prime)
    ELSE IF x.exponent > MAX_PADIC_EXPONENT
    THEN PAdicFloat(0, MAX_PADIC_EXPONENT, x.prime)
    ELSE IF x.significand = 0
    THEN PAdicFloat(0, MAX_PADIC_EXPONENT, x.prime)
    ELSE LET v == valuationFromInt(x.significand, x.prime) IN
         PAdicFloat((x.significand \div Pow(x.prime, v))
                        % Pow(x.prime, PADIC_PRECISION),
                    v + x.exponent, x.prime)

(* ------------------------ outcomes of a call --------------------------- *)

NoValue == [significand |-> 0, exponent |-> 0, prime |-> 0]
\* a call that returns the numeral v
Return(v) == [exc |-> "none", val |-> v]
\* a call that ends in the exception kind
Raise(kind) == [exc |-> kind, val |-> NoValue]
\* no call made yet
Unset == [exc |-> "unset", val |-> NoValue]

(* ------------------------------ operators ------------------------------ *)
\* A binary operator that returns NotImplemented for both orders makes Python
\* raise TypeError at the call.

\* PAdicFloat.__mul__, from the NaN test on: x and y are a and b, normalized
mulNormalized(x, y, p) ==
    LET newexp == x.exponent + y.exponent IN
    IF isNaN(x) \/ isNaN(y) THEN Return(NaN(p))
    ELSE IF isinf(x) \/ isinf(y)
    THEN (IF iszero(x) \/ iszero(y) THEN Return(NaN(p)) ELSE Return(inf(p)))
    ELSE IF newexp > MAX_PADIC_EXPONENT
    THEN Return(PAdicFloat(0, MAX_PADIC_EXPONENT, p))
    ELSE Return(PAdicFloat((x.significand * y.significand)
                               % Pow(p, PADIC_PRECISION),
                           newexp, p))

\* PAdicFloat.__mul__
mul(self, other) ==
    IF self.prime # other.prime THEN Raise("TypeError")
    ELSE mulNormalized(normalize(self), normalize(other), self.prime)

\* PAdicFloat.__truediv__, the quotient of two operands that passed the
\* sentinel tests; pow(b.significand, -1, p) raises ValueError on a non-unit
truedivFinite(x, y, p) ==
    LET newexp == x.exponent - y.exponent IN
    IF newexp < MIN_PADIC_EXPONENT
    THEN Return(PAdicFloat(1, MIN_PADIC_EXPONENT - 1, p))
    ELSE IF ~HasInverse(y.significand, p) THEN Raise("ValueError")
    ELSE Return(PAdicFloat(
             (x.significand * invmod(y.significand, p, PADIC_PRECISION))
                 % Pow(p, PADIC_PRECISION),
             newexp, p))

\* faulty variant of truedivNormalized: the test for a zero divisor is left out
truedivNoZeroCheck(x, y, p) ==
    IF isNaN(x) \/ isNaN(y) THEN Return(NaN(p))
    ELSE IF isinf(y)
    THEN (IF isinf(x) THEN Return(NaN(p))
          ELSE Return(PAdicFloatFromInt(0, p)))
    ELSE truedivFinite(x, y, p)

\* PAdicFloat.__truediv__, from the NaN test on: x and y are a and b, normalized
truedivNormalized(x, y, p) ==
    IF isNaN(x) \/ isNaN(y) THEN Return(NaN(p))
    ELSE IF iszero(y)
    THEN (IF iszero(x) THEN Return(NaN(p)) ELSE Return(inf(p)))
    ELSE IF isinf(y)
    THEN (IF isinf(x) THEN Return(NaN(p))
          ELSE Return(PAdicFloatFromInt(0, p)))
    ELSE truedivFinite(x, y, p)

\* PAdicFloat.__truediv__
truediv(self, other) ==
    IF self.prime # other.prime THEN Raise("TypeError")
    ELSE truedivNormalized(normalize(self), normalize(other), self.prime)

\* faulty variant of addNormalized: with unequal exponents the operand with
\* the smaller exponent is the one scaled up
addBackward(x, y, p) ==
    LET v == valuationFromInt(x.significand + y.significand, p) IN
    IF isNaN(x) \/ isNaN(y) THEN Return(NaN(p))
    ELSE IF isinf(x) \/ isinf(y) THEN Return(inf(p))
    ELSE IF x.exponent = y.exponent
    THEN (IF v > MAX_PADIC_EXPONENT - x.exponent
          THEN Return(PAdicFloat(0, MAX_PADIC_EXPONENT, p))
          ELSE Return(PAdicFloat(
                   (x.significand + y.significand) \div Pow(p, v),
                   x.exponent + v, p)))
    ELSE IF x.exponent > y.exponent
    THEN Return(PAdicFloat(
             y.significand * Pow(p, x.exponent - y.exponent) + x.significand,
             y.exponent, p))
    ELSE Return(PAdicFloat(
             x.significand * Pow(p, y.exponent - x.exponent) + y.significand,
             x.exponent, p))

\* PAdicFloat.__add__, from the NaN test on: x and y are a and b, normalized
addNormalized(x, y, p) ==
    LET v == valuationFromInt(x.significand + y.significand, p) IN
    IF isNaN(x) \/ isNaN(y) THEN Return(NaN(p))
    ELSE IF isinf(x) \/ isinf(y) THEN Return(inf(p))
    ELSE IF x.exponent = y.exponent
    THEN (IF v > MAX_PADIC_EXPONENT - x.exponent
          THEN Return(PAdicFloat(0, MAX_PADIC_EXPONENT, p))
          ELSE Return(PAdicFloat(
                   (x.significand + y.significand) \div Pow(p, v),
                   x.exponent + v, p)))
    ELSE IF x.exponent > y.exponent
    THEN Return(PAdicFloat(
             x.significand * Pow(p, x.exponent - y.exponent) + y.significand,
             y.exponent, p))
    ELSE Return(PAdicFloat(
             y.significand * Pow(p, y.exponent - x.exponent) + x.significand,
             x.exponent, p))

\* faulty variant of add: the right operand is not normalized
addOtherUnnormalized(self, other) ==
    IF self.prime # other.prime THEN Raise("TypeError")
    ELSE addNormalized(normalize(self), other, self.prime)

\* PAdicFloat.__add__
add(self, other) ==
    IF self.prime # other.prime THEN Raise("TypeError")
    ELSE addNormalized(normalize(self), normalize(other), self.prime)

\* PAdicFloat.__neg__: self * -1
neg(self) == mul(self, PAdicFloatFromInt(-1, self.prime))

\* PAdicFloat.__sub__: self + (-other)
sub(self, other) ==
    LET n == neg(other) IN
    IF n.exc # "none" THEN n ELSE add(self, n.val)

\* PAdicFloat.__invert__: 1 / self, that is PAdicFloat(1, prime) / self
invert(self) == truediv(PAdicFloatFromInt(1, self.prime), self)

\* faulty variant of eq: the fields are compared and NaN is not tested for
eqFieldwise(self, other) ==
    IF normalize(self) = normalize(other) THEN "True" ELSE "False"

\* PAdicFloat.__eq__ : "True", "False", or the exception the subtraction raises
eq(self, other) ==
    LET x == normalize(self)
        y == normalize(other)
        d == sub(x, y)
    IN IF isNaN(x) \/ isNaN(y) THEN "False"
       ELSE IF d.exc # "none" THEN d.exc
       ELSE IF iszero(d.val) THEN "True" ELSE "False"

(* -------------------------- analytic functions ------------------------- *)

\* PAdicFloat(Fraction(num, dem), prime=p), for a reduced fraction, dem > 0
PAdicFloatFromFraction(num, dem, p) ==
    LET numval == valuationFromInt(num, p)
        demval == valuationFromInt(dem, p)
        unitdem == IF numval = 0 THEN dem \div Pow(p, demval) ELSE dem
        unitfactor == IF numval = 0 THEN num ELSE num \div Pow(p, numval)
        exponent == IF numval = 0 THEN -demval ELSE numval
    IN PAdicFloat((unitfactor * invmod(unitdem, p, PADIC_PRECISION))
                      % Pow(p, PADIC_PRECISION),
                  exponent, p)

\* t / (t.prime ** texp): a negative texp makes the divisor a float, which
\* PAdicFloat(...) refuses with TypeError; __truediv__ then returns
\* NotImplemented and the division raises TypeError.
DivideByPrimePower(t, texp) ==
    IF texp < 0 THEN Raise("TypeError")
    ELSE truediv(t, PAdicFloatFromInt(Pow(t.prime, texp), t.prime))

\* the body of the for loop of plog, iteration i, on the loop's locals
PlogBody(st, tclean, texp, i) ==
    LET p == tclean.prime
        log == normalize(add(st.log, st.summand).val)
        powersig == mul(st.powersig, tclean).val
        powerexp == st.powerexp + texp
        iexp == valuationFromInt(i, p)
        ifactor == i \div Pow(p, iexp)
        factor == PAdicFloatFromFraction(IF (i - 1) % 2 = 0 THEN 1 ELSE -1,
                                         ifactor, p)
        scaling == PAdicFloatFromInt(Pow(p, powerexp - iexp), p)
        summand == normalize(mul(mul(powersig, factor).val, scaling).val)
    IN [log |-> log, summand |-> summand,
        powersig |-> powersig, powerexp |-> powerexp]

RECURSIVE PlogLoop(_, _, _, _, _)
PlogLoop(st, tclean, texp, i, target) ==
    IF i > target THEN st.log
    ELSE PlogLoop(PlogBody(st, tclean, texp, i), tclean, texp, i + 1, target)

\* plog(padicNumber)
plog(padicNumber) ==
    LET t == normalize(add(padicNumber,
                           PAdicFloatFromInt(-1, padicNumber.prime)).val)
        texp == t.exponent
        tclean == DivideByPrimePower(t, texp)
        target == (MAX_PADIC_EXPONENT \div texp) + 1
    IN IF tclean.exc # "none" THEN tclean
       ELSE IF texp < 1 THEN Raise("ValueError")
       ELSE Return(PlogLoop([log |-> PAdicFloatFromInt(0, t.prime),
                             summand |-> t,
                             powersig |-> tclean.val,
                             powerexp |-> texp],
                            tclean.val, texp, 2, target))

\* the body of the for loop of pexp, iteration i, on the loop's locals
PexpBody(st, tclean, texp, i) ==
    LET p == tclean.prime
        exp == normalize(add(st.exp, st.summand).val)
        powerexp == st.powerexp + texp
        powersig == mul(st.powersig, tclean).val
        iexp == valuationFromInt(i, p)
        factexp == st.factexp + iexp
        factsig == truediv(st.factsig,
                           PAdicFloatFromInt(i \div Pow(p, iexp), p)).val
        scaling == normalize(PAdicFloatFromInt(Pow(p, powerexp - factexp), p))
        summand == normalize(mul(scaling, mul(powersig, factsig).val).val)
    IN [exp |-> exp, summand |-> summand, powersig |-> powersig,
        powerexp |-> powerexp, factexp |-> factexp, factsig |-> factsig]

RECURSIVE PexpLoop(_, _, _, _, _)
PexpLoop(st, tclean, texp, i, target) ==
    IF i > target THEN st.exp
    ELSE PexpLoop(PexpBody(st, tclean, texp, i), tclean, texp, i + 1, target)

\* int(_MAX_PADIC_EXPONENT / (t.exponent - 1/(t.prime - 1))) + 1
PexpTarget(texp, p) ==
    ((MAX_PADIC_EXPONENT * (p - 1)) \div (texp * (p - 1) - 1)) + 1

\* pexp(padicNumber)
pexp(padicNumber) ==
    LET t == normalize(padicNumber)
        texp == t.exponent
        tclean == DivideByPrimePower(t, texp)
        one == PAdicFloatFromInt(1, t.prime)
    IN IF tclean.exc # "none" THEN tclean
       ELSE IF t.prime = 2 /\ texp < 2 THEN Raise("ValueError")
       ELSE IF t.prime # 2 /\ texp < 1 THEN Raise("ValueError")
       ELSE Return(PexpLoop([exp |-> PAdicFloatFromInt(0, t.prime),
                             summand |-> one,
                             powersig |-> one,
                             powerexp |-> 0,
                             factexp |-> 0,
                             factsig |-> one],
                            tclean.val, texp, 1, PexpTarget(texp, t.prime)))

(* ----------------------------- input sets ------------------------------ *)

\* raw numerals, canonical or not, given to the two-operand operations
Numerals(p) ==
    { PAdicFloat(s, e, p) :
        s \in (-1) .. MaxSig,
        e \in (MIN_PADIC_EXPONENT - 2) .. (MAX_PADIC_EXPONENT + 1) }

\* raw numerals given to the one-operand operations: every significand of
\* [0, p^PRECISION) and some on either side of it
WideNumerals(p) ==
    { PAdicFloat(s, e, p) :
        s \in (-p) .. (Pow(p, PADIC_PRECISION) + p),
        e \in (MIN_PADIC_EXPONENT - 2) .. (MAX_PADIC_EXPONENT + 2) }

IdleInvmod ==
    /\ ia = 0 /\ ip = 0 /\ ipower = 0 /\ ic = 0 /\ ib = 0 /\ ii = 0
    /\ ipc = "idle" /\ isteps = 0

(* --------------------- two-operand operations (Spec) ------------------- *)

Init ==
    /\ \E p \in Primes, q \in Primes :
          /\ a \in Numerals(p)
          /\ b \in Numerals(q)
    /\ op = "start"
    /\ res = Unset /\ res2 = Unset /\ truth = "unset"
    /\ mInt = 0 /\ nInt = 0
    /\ IdleInvmod

\* a == b
Eq ==
    /\ op = "start"
    /\ op' = "eq"
    /\ truth' = eq(a, b)
    /\ UNCHANGED <<a, b, res, res2>>
    /\ UNCHANGED <<mInt, nInt>>
    /\ UNCHANGED invvars

\* a * b
Mul ==
    /\ op = "start"
    /\ op' = "mul"
    /\ res' = mul(a, b)
    /\ UNCHANGED <<a, b, res2, truth>>
    /\ UNCHANGED <<mInt, nInt>>
    /\ UNCHANGED invvars

\* a / b
Truediv ==
    /\ op = "start"
    /\ op' = "truediv"
    /\ res' = truediv(a, b)
    /\ UNCHANGED <<a, b, res2, truth>>
    /\ UNCHANGED <<mInt, nInt>>
    /\ UNCHANGED invvars

\* a + b
Add ==
    /\ op = "start"
    /\ op' = "add"
    /\ res' = add(a, b)
    /\ UNCHANGED <<a, b, res2, truth>>
    /\ UNCHANGED <<mInt, nInt>>
    /\ UNCHANGED invvars

\* b + a, after a + b
AddSwapped ==
    /\ op = "add"
    /\ op' = "add2"
    /\ res2' = add(b, a)
    /\ UNCHANGED <<a, b, res, truth>>
    /\ UNCHANGED <<mInt, nInt>>
    /\ UNCHANGED invvars

\* a - b
Sub ==
    /\ op = "start"
    /\ op' = "sub"
    /\ res' = sub(a, b)
    /\ UNCHANGED <<a, b, res2, truth>>
    /\ UNCHANGED <<mInt, nInt>>
    /\ UNCHANGED invvars

Next == Eq \/ Mul \/ Truediv \/ Add \/ AddSwapped \/ Sub

Spec == Init /\ [][Next]_vars

(* ------------------ one-operand operations (SpecUnary) ----------------- *)

InitUnary ==
    /\ \E p \in Primes \cup {5} : a \in WideNumerals(p)
    /\ b = NoValue
    /\ op = "start"
    /\ res = Unset /\ res2 = Unset /\ truth = "unset"
    /\ mInt = 0 /\ nInt = 0
    /\ IdleInvmod

\* a.normalize()
Normalize ==
    /\ op = "start"
    /\ op' = "normalize"
    /\ res' = Return(normalize(a))
    /\ UNCHANGED <<a, b, res2, truth>>
    /\ UNCHANGED <<mInt, nInt>>
    /\ UNCHANGED invvars

\* a.normalize().normalize()
NormalizeAgain ==
    /\ op = "normalize"
    /\ op' = "normalize2"
    /\ res2' = Return(normalize(res.val))
    /\ UNCHANGED <<a, b, res, truth>>
    /\ UNCHANGED <<mInt, nInt>>
    /\ UNCHANGED invvars

\* -a
Neg ==
    /\ op = "start"
    /\ op' = "neg"
    /\ res' = neg(a)
    /\ UNCHANGED <<a, b, res2, truth>>
    /\ UNCHANGED <<mInt, nInt>>
    /\ UNCHANGED invvars

\* ~a
Invert ==
    /\ op = "start"
    /\ op' = "invert"
    /\ res' = invert(a)
    /\ UNCHANGED <<a, b, res2, truth>>
    /\ UNCHANGED <<mInt, nInt>>
    /\ UNCHANGED invvars

\* a * ~a, and its comparison with PAdicFloat(1, prime)
MulByInverse ==
    /\ op = "invert"
    /\ res.exc = "none"
    /\ op' = "mulinv"
    /\ res2' = mul(a, res.val)
    /\ truth' = eq(res2'.val, PAdicFloatFromInt(1, a.prime))
    /\ UNCHANGED <<a, b, res>>
    /\ UNCHANGED <<mInt, nInt>>
    /\ UNCHANGED invvars

\* a == a
EqSelf ==
    /\ op = "start"
    /\ op' = "eqself"
    /\ truth' = eq(a, a)
    /\ UNCHANGED <<a, b, res, res2>>
    /\ UNCHANGED <<mInt, nInt>>
    /\ UNCHANGED invvars

\* plog(a)
Plog ==
    /\ op = "start"
    /\ op' = "plog"
    /\ res' = plog(a)
    /\ UNCHANGED <<a, b, res2, truth>>
    /\ UNCHANGED <<mInt, nInt>>
    /\ UNCHANGED invvars

\* pexp(a)
Pexp ==
    /\ op = "start"
    /\ op' = "pexp"
    /\ res' = pexp(a)
    /\ UNCHANGED <<a, b, res2, truth>>
    /\ UNCHANGED <<mInt, nInt>>
    /\ UNCHANGED invvars

NextUnary ==
    Normalize \/ NormalizeAgain \/ Neg \/ Invert \/ MulByInverse \/ EqSelf
        \/ Plog \/ Pexp

SpecUnary == InitUnary /\ [][NextUnary]_vars

(* ------------------- integer addition (SpecInteger) -------------------- *)

\* a = PAdicFloat(mInt, prime=p), b = PAdicFloat(nInt, prime=p)
InitInteger ==
    /\ \E p \in Primes :
          /\ mInt \in 0 .. Pow(p, PADIC_PRECISION)
          /\ nInt \in 0 .. Pow(p, PADIC_PRECISION)
          /\ a = PAdicFloatFromInt(mInt, p)
          /\ b = PAdicFloatFromInt(nInt, p)
    /\ op = "start"
    /\ res = Unset /\ res2 = Unset /\ truth = "unset"
    /\ IdleInvmod

\* a + b
AddIntegers ==
    /\ op = "start"
    /\ op' = "add"
    /\ res' = add(a, b)
    /\ UNCHANGED <<a, b, res2, truth, mInt, nInt>>
    /\ UNCHANGED invvars

\* (a + b).normalize()
NormalizeSum ==
    /\ op = "add"
    /\ res.exc = "none"
    /\ op' = "addnorm"
    /\ res' = Return(normalize(res.val))
    /\ UNCHANGED <<a, b, res2, truth, mInt, nInt>>
    /\ UNCHANGED invvars

\* PAdicFloat(mInt + nInt, prime=p).normalize()
FromSum ==
    /\ op = "addnorm"
    /\ op' = "sum"
    /\ res2' = Return(normalize(PAdicFloatFromInt(mInt + nInt, a.prime)))
    /\ UNCHANGED <<a, b, res, truth, mInt, nInt>>
    /\ UNCHANGED invvars

NextInteger == AddIntegers \/ NormalizeSum \/ FromSum

SpecInteger == InitInteger /\ [][NextInteger]_vars

(* ------------------ _invmod, step by step (SpecInvmod) ----------------- *)

InitInvmod ==
    /\ a = NoValue /\ b = NoValue /\ op = "invmod"
    /\ res = Unset /\ res2 = Unset /\ truth = "unset"
    /\ mInt = 0 /\ nInt = 0
    /\ ia \in (-MaxInvArg) .. MaxInvArg
    /\ ip \in InvPrimes
    /\ ipower \in 1 .. MaxPower
    /\ ic = 0 /\ ib = 0 /\ ii = 0
    /\ ipc = "start" /\ isteps = 0

\* c = pow(a, -1, p); b = c; the loop starts at i = 2
InvBase ==
    /\ ipc = "start"
    /\ HasInverse(ia, ip)
    /\ ic' = BaseInverse(ia, ip)
    /\ ib' = ic'
    /\ ii' = 2
    /\ ipc' = "loop"
    /\ UNCHANGED <<ia, ip, ipower, isteps>>
    /\ UNCHANGED numvars

\* pow(a, -1, p) raises ValueError: a is not invertible modulo p
InvBaseRaises ==
    /\ ipc = "start"
    /\ ~HasInverse(ia, ip)
    /\ ipc' = "ValueError"
    /\ UNCHANGED <<ia, ip, ipower, ic, ib, ii, isteps>>
    /\ UNCHANGED numvars

\* one iteration of: for i in range(2, power+1)
InvStep ==
    /\ ipc = "loop"
    /\ ii <= ipower
    /\ ib' = HenselStep(ia, ip, ic, ib, ii)
    /\ ii' = ii + 1
    /\ isteps' = isteps + 1
    /\ UNCHANGED <<ia, ip, ipower, ic, ipc>>
    /\ UNCHANGED numvars

\* return b
InvReturn ==
    /\ ipc = "loop"
    /\ ii > ipower
    /\ ipc' = "done"
    /\ UNCHANGED <<ia, ip, ipower, ic, ib, ii, isteps>>
    /\ UNCHANGED numvars

NextInvmod == InvBase \/ InvBaseRaises \/ InvStep \/ InvReturn

SpecInvmod == InitInvmod /\ [][NextInvmod]_vars

(* ------------------------------- claims -------------------------------- *)

\* the three sentinel encodings, and canonical form, as the data model states them
ZeroEncoding(x) == x.exponent = MAX_PADIC_EXPONENT /\ x.significand = 0
InfinityEncoding(x) == x.exponent = MIN_PADIC_EXPONENT - 1 /\ x.significand = 1
NaNEncoding(x) == x.exponent = MIN_PADIC_EXPONENT - 1 /\ x.significand = 0

\* canonical and not a sentinel: a unit significand in [1, p^PRECISION), an
\* exponent in [MIN_EXPONENT, MAX_EXPONENT]
Canonical(x) ==
    /\ x.exponent >= MIN_PADIC_EXPONENT
    /\ x.exponent <= MAX_PADIC_EXPONENT
    /\ x.significand >= 1
    /\ x.significand < Pow(x.prime, PADIC_PRECISION)
    /\ x.significand % x.prime # 0

\* x normalizes to neither Infinity nor NaN
Finite(x) ==
    /\ ~InfinityEncoding(normalize(x))
    /\ ~NaNEncoding(normalize(x))

SameFields(x, y) ==
    /\ x.significand = y.significand
    /\ x.exponent = y.exponent
    /\ x.prime = y.prime

\* C1: normalize is idempotent: normalizing the result of normalize again
\* gives the same significand, exponent and prime, for every numeral,
\* canonical or not.  (SpecUnary)
C1_NormalizeIdempotent ==
    op = "normalize2" => SameFields(res2.val, res.val)

\* C2: on operands neither of which normalizes to NaN, a == b is true exactly
\* when the normalized operands have the same prime, exponent and
\* significand.  (Spec)
C2_EqIsFieldEquality ==
    (op = "eq" /\ ~NaNEncoding(normalize(a)) /\ ~NaNEncoding(normalize(b)))
        => ((truth = "True") <=> SameFields(normalize(a), normalize(b)))

\* C3: NaN is never equal to anything: when either operand normalizes to
\* NaN, a == b is false, whatever the other operand and its prime.  (Spec)
C3_NaNNeverEqual ==
    (op = "eq" /\ (NaNEncoding(normalize(a)) \/ NaNEncoding(normalize(b))))
        => truth = "False"

\* C3 witness: nan(2) == nan(2) was evaluated, and is false
C3_Witness ==
    /\ op = "eq"
    /\ a = PAdicFloat(0, MIN_PADIC_EXPONENT - 1, 2)
    /\ b = a
    /\ truth = "False"

\* C4 as stated: for every canonical non-sentinel a, whatever its exponent in
\* [MIN_EXPONENT, MAX_EXPONENT], a * ~a is fromInteger(1, a.prime).  (SpecUnary)
C4_InverseEverywhere ==
    (op = "mulinv" /\ Canonical(a))
        => res2 = Return(PAdicFloatFromInt(1, a.prime))

\* C4 amended: for every canonical non-sentinel a with exponent in
\* [MIN_EXPONENT, MAX_EXPONENT - 1], a * ~a is fromInteger(1, a.prime) and
\* compares equal to it; at exponent MAX_EXPONENT the inverse overflows to
\* Infinity and so does the product.  (SpecUnary)
C4_InverseBelowMaxExponent ==
    (op = "mulinv" /\ Canonical(a))
        => IF a.exponent < MAX_PADIC_EXPONENT
           THEN /\ res2 = Return(PAdicFloatFromInt(1, a.prime))
                /\ res2.val.significand = 1 /\ res2.val.exponent = 0
                /\ truth = "True"
           ELSE /\ res.exc = "none" /\ InfinityEncoding(res.val)
                /\ res2.exc = "none" /\ InfinityEncoding(res2.val)

\* C4 witness: a canonical a at the smallest exponent, with a significand
\* other than 1, was multiplied by its inverse and gave one
C4_Witness ==
    /\ op = "mulinv"
    /\ Canonical(a)
    /\ a.exponent = MIN_PADIC_EXPONENT
    /\ a.significand > 1
    /\ res.val.significand > 1
    /\ res2.val.significand = 1 /\ res2.val.exponent = 0

\* C5: add is commutative: for finite a and b sharing a prime, a + b and
\* b + a have the same exponent and significand.  (Spec)
C5_AddCommutative ==
    (op = "add2" /\ a.prime = b.prime /\ Finite(a) /\ Finite(b))
        => /\ res.exc = "none" /\ res2.exc = "none"
           /\ SameFields(res.val, res2.val)

\* C5 witness: two finite nonzero operands of unequal exponents, the left one
\* non-canonical, were added in both orders
C5_Witness ==
    /\ op = "add2"
    /\ a.prime = b.prime
    /\ Canonical(b)
    /\ a.exponent >= MIN_PADIC_EXPONENT /\ a.exponent <= MAX_PADIC_EXPONENT
    /\ a.significand > 0 /\ a.significand % a.prime = 0
    /\ normalize(a).exponent < b.exponent
    /\ res.exc = "none" /\ res = res2

\* C6: division by Zero clamps to a sentinel: when the divisor normalizes to
\* Zero, a finite nonzero dividend gives Infinity and a dividend that
\* normalizes to Zero gives NaN; nothing is raised.  (Spec)
C6_DivisionByZero ==
    (op = "truediv" /\ a.prime = b.prime /\ ZeroEncoding(normalize(b)))
        => /\ res.exc = "none"
           /\ (Finite(a) /\ ~ZeroEncoding(normalize(a)))
                 => InfinityEncoding(res.val)
           /\ ZeroEncoding(normalize(a)) => NaNEncoding(res.val)

\* C6 witness: a canonical dividend of positive exponent was divided by a
\* non-canonical zero (nonzero significand, exponent above MAX_EXPONENT)
C6_Witness ==
    /\ op = "truediv"
    /\ a.prime = b.prime
    /\ Canonical(a) /\ a.exponent > 0
    /\ b.exponent > MAX_PADIC_EXPONENT /\ b.significand > 1
    /\ InfinityEncoding(res.val)

\* C7: integer addition is exact: for nonnegative m, n with
\* m + n < p^PRECISION, normalize(fromInteger(m) + fromInteger(n)) has the
\* exponent and significand of normalize(fromInteger(m + n)).  (SpecInteger)
C7_IntegerAddition ==
    (op = "sum" /\ mInt + nInt < Pow(a.prime, PADIC_PRECISION))
        => /\ res.exc = "none"
           /\ SameFields(res.val, res2.val)

\* C7 witness: two positive integers of equal valuation whose sum has a
\* larger one (cancellation raised the exponent) were added
C7_Witness ==
    /\ op = "sum"
    /\ mInt > 0 /\ nInt > 0 /\ mInt # nInt
    /\ mInt + nInt < Pow(a.prime, PADIC_PRECISION)
    /\ a.exponent = b.exponent
    /\ res.val.exponent > a.exponent
    /\ SameFields(res.val, res2.val)

\* the argument t of the series of plog: normalize(x - 1)
PlogArgument(x) == normalize(sub(x, PAdicFloatFromInt(1, x.prime)).val)

\* C8: plog and pexp reject every argument outside their domain with
\* ValueError and nothing else: plog(x) when normalize(x - 1) has exponent
\* below 1, pexp(t) when normalize(t) has exponent below 2 (prime 2) or
\* below 1 (other primes).  (SpecUnary)
C8_DomainError ==
    /\ (op = "plog" /\ PlogArgument(a).exponent < 1)
          => res = Raise("ValueError")
    /\ (op = "pexp"
          /\ normalize(a).exponent < (IF a.prime = 2 THEN 2 ELSE 1))
          => res = Raise("ValueError")

\* C9: Infinity divided by any finite numeral (Zero, or canonical with any
\* exponent) is Infinity.  (Spec)
C9_InfinityOverFinite ==
    (op = "truediv" /\ InfinityEncoding(a) /\ a.prime = b.prime
        /\ (ZeroEncoding(b) \/ Canonical(b)))
        => (res.exc = "none" /\ InfinityEncoding(res.val))

\* C10: the Hensel lift is correct at every step: with c the inverse of a
\* modulo p throughout, after the iteration for i the running value b is in
\* [0, p^i) and a*b = 1 modulo p^i; i - 2 iterations have run before the
\* iteration for i, and power - 1 when b is returned.  (SpecInvmod)
C10_HenselLift ==
    (ipc = "loop" \/ ipc = "done")
        => /\ ic >= 0 /\ ic < ip /\ (ia * ic) % ip = 1
           /\ ii >= 2 /\ ii <= ipower + 1
           /\ isteps = ii - 2
           /\ ib >= 0 /\ ib < Pow(ip, ii - 1)
           /\ (ia * ib) % Pow(ip, ii - 1) = 1
           /\ (ipc = "done" => (ii = ipower + 1 /\ isteps = ipower - 1))

\* C10 witness: the inverse of a negative a modulo 5^MaxPower was returned
\* after MaxPower - 1 iterations
C10_Witness ==
    /\ ipc = "done"
    /\ ia < -1 /\ ip = 5 /\ ipower = MaxPower
    /\ isteps = MaxPower - 1
    /\ ib > 5
    /\ (ia * ib) % Pow(5, MaxPower) = 1

====
